---- MODULE Spec2Model ----
(***************************************************************************)
(* Research orchestration engine of local-research-agent.                  *)
(*                                                                         *)
(* Three kinds of ResearchState objects exist while a run executes:        *)
(*   rs     - the object run_research allocates and returns                *)
(*            (graph.py:318-323); it is never handed to the graph;         *)
(*   ns     - the object the compiled graph hands to the executor that is  *)
(*            running; it is rebuilt from the graph's channels each time   *)
(*            an executor is entered, so the progress fields an executor   *)
(*            writes stay on that object;                                  *)
(*   app_rs - the object run_research_sync allocates (app.py:148-152).     *)
(* ch holds the graph's channels: the fields the executors return.         *)
(*                                                                         *)
(* Python strings that take part in formatting are sequences of pieces;    *)
(* None is the empty sequence.  Timestamps are readings of a logical       *)
(* clock, 0 stands for None.  step_progress is kept in tenths.             *)
(***************************************************************************)
EXTENDS Integers, Sequences, FiniteSets, TLC

\* ---- bounds ----
MaxLoopsBound == 2     \* largest max_web_research_loops explored
MaxRuns == 2           \* number of runs explored one after the other
MaxLoopCount == 4      \* largest research_loop_count given to the estimate
MaxTotalSteps == 3     \* largest total_steps given to the estimate
MaxSources == 4        \* longest sources_gathered given to the deduplication

\* ---- program constants ----
MinLoops == 1          \* settings.py:28  ge=1

None == <<>>
NoTime == 0

Topics == {<<"climate">>}
Executors == {"generate_query", "web_research", "summarize_sources",
              "reflect_on_summary", "finalize_summary"}
RESEARCH_STEPS == {"idle"} \cup Executors \cup {"completed", "error"}

\* A Python string is the sequence of its lines; a url is a one-line string.
\* What one search call can give back: the urls of its results.
URL_A == <<"http://a">>
URL_B == <<"http://b">>
HttpLines == {"http://a", "http://b"}
SearchResults == {<<>>, <<URL_B, URL_A>>}

\* What the generation capability can give back.
LLMQueries == {<<"Q1">>}
LLMSummaries == {<<"S1">>}
LLMFollowUps == {<<"F1">>}

\* settings.py:58: the search backends a validated configuration can name
SearchAPIs == {<<"duckduckgo">>}
\* a backend name that no branch of _web_research knows (graph.py:137)
OtherAPIs == {<<"bing">>}

\* result.content of a generate_text call: json is what json.loads makes of
\* it ("object", "other" for valid JSON that is not an object, "invalid"),
\* keys and fields are those of the parsed object, text is the raw content
Content(json, keys, fields, text) ==
    [json |-> json, keys |-> keys, fields |-> fields, text |-> text]
NoFields == [query |-> None, rationale |-> None,
             follow_up_query |-> None, knowledge_gap |-> None]
NoResult == Content("none", {}, NoFields, None)

\* replies to the query prompt (graph.py:73-76)
QueryResponses ==
    UNION { { Content("object", {"query", "rationale"},
                      [NoFields EXCEPT !.query = q, !.rationale = <<"R1">>],
                      <<"{query, rationale}">>),
              Content("object", {"query"},
                      [NoFields EXCEPT !.query = q], <<"{query}">>),
              Content("object", {"rationale"},
                      [NoFields EXCEPT !.rationale = <<"R1">>],
                      <<"{rationale}">>),
              Content("invalid", {}, NoFields,
                      <<"<think>", "t", "</think>">> \o q),
              Content("other", {}, NoFields, <<"[query]">>) } :
            q \in LLMQueries }

\* replies to the reflection prompt (graph.py:230-235)
ReflectResponses ==
    UNION { { Content("object", {"follow_up_query", "knowledge_gap"},
                      [NoFields EXCEPT !.follow_up_query = f,
                                       !.knowledge_gap = <<"G1">>],
                      <<"{knowledge_gap, follow_up_query}">>),
              Content("object", {"knowledge_gap"},
                      [NoFields EXCEPT !.knowledge_gap = <<"G1">>],
                      <<"{knowledge_gap}">>),
              Content("object", {"follow_up_query"}, NoFields,
                      <<"{follow_up_query: null}">>),
              Content("object", {"follow_up_query"},
                      [NoFields EXCEPT !.follow_up_query = <<"">>],
                      <<"{follow_up_query: ''}">>),
              Content("invalid", {}, NoFields, <<"not json">>),
              Content("other", {}, NoFields, <<"[follow_up_query]">>) } :
            f \in LLMFollowUps }

\* not x, for x a string or None
Falsy(x) == x \in {None, <<"">>}

\* utils.strip_thinking_tokens: the text without its <think>...</think>
\* blocks; inside tells whether the scan is within a block
RECURSIVE strip_think(_, _)
strip_think(text, inside) ==
    IF text = <<>> THEN <<>>
    ELSE IF inside
         THEN strip_think(Tail(text), Head(text) # "</think>")
         ELSE IF Head(text) = "<think>"
              THEN strip_think(Tail(text), TRUE)
              ELSE <<Head(text)>> \o strip_think(Tail(text), FALSE)

strip_thinking_tokens(text) == strip_think(text, FALSE)

\* utils.get_config_value: the string of a str or an Enum setting
get_config_value(value) == value

invoke_twice(calls) == calls + 2

\* llm_providers.py:18-21: one call of the underlying chat model
invoke(calls) == calls + 1

\* vector_store.py:16-20: a new instance, without a model
VectorStore == [model |-> None]

\* Exceptions
TypeError == <<"string indices must be integers">>
ValueError(api) == <<"Unsupported search API: ">> \o api
LLMError == <<"generation backend error">>
SearchError == <<"search backend error">>
CallbackError == <<"callback error">>
IndexError == <<"list index out of range">>

VARIABLES
    config,             \* ResearchConfig held by the graph
    progress_callback,  \* "none" | "app" | "custom": the registered observer
    pc,                 \* position of the control flow
    node,               \* executor the graph runs next / is running
    ch,                 \* graph channels (pipeline state)
    ns,                 \* ResearchState object of the running executor
    rs,                 \* ResearchState object of run_research
    app_rs,             \* ResearchState object of run_research_sync
    exc,                \* exception in flight (None when there is none)
    session_state,      \* st.session_state entries the run touches
    db,                 \* research_sessions table: rows in insertion order
    clock,              \* datetime.now() source
    uuids,              \* number of uuid4() values handed out
    runs,               \* runs started so far
    entered,            \* executors entered in the current run, in order
    search_calls,       \* search capability calls in the current run
    searched,           \* query the last search of the executor was passed
    sync_result,        \* what run_research_sync returned last: "rs" or "none"
    cap_failed,         \* a generation or search call of this run has raised
    cb_threw,           \* a callback invocation of this run has thrown
    llm_calls,          \* generate_text calls made by this run
    result,             \* the running executor's result: the last reply
    reports,            \* the progress reports the callback got in this run
    vs,                 \* the VectorStore instance and its model
    fn                  \* a call of a pure function: argument and result

pipeline_vars == <<config, progress_callback, pc, node, ch, ns, rs, app_rs,
                   exc, session_state, db, clock, uuids, runs, entered,
                   search_calls, searched, sync_result, cap_failed,
                   cb_threw, llm_calls, result,
                   reports, vs>>

vars == <<pipeline_vars, fn>>

\* ---------------------------------------------------------------------
\* ResearchState (state.py)
\* ---------------------------------------------------------------------

\* an empty dict
EmptyDict == [k \in {} |-> None]

\* dataclass defaults, state.py:11-29
ResearchState_default ==
    [research_topic |-> None, search_query |-> None,
     web_research_results |-> <<>>, sources_gathered |-> <<>>,
     research_loop_count |-> 0, running_summary |-> None,
     current_step |-> "idle", step_progress |-> 0, total_steps |-> 5,
     step_details |-> EmptyDict,
     session_id |-> 0, started_at |-> NoTime, completed_at |-> NoTime,
     error_message |-> None]

\* dict.update: the keys of d overwrite, the others stay
DictUpdate(old, d) == d @@ old

\* an update that keeps the progress as a percentage
update_step_percent(s, step_name, progress, details) ==
    [s EXCEPT !.current_step = step_name,
              !.step_progress = progress * 10,
              !.step_details = IF DOMAIN details # {}
                               THEN DictUpdate(s.step_details, details)
                               ELSE s.step_details]

\* state.py:78-83
update_step(s, step_name, progress, details) ==
    [s EXCEPT !.current_step = step_name,
              !.step_progress = progress,
              !.step_details = IF DOMAIN details # {}
                               THEN DictUpdate(s.step_details, details)
                               ELSE s.step_details]

mark_completed_nostamp(s, now) ==
    [s EXCEPT !.current_step = "completed", !.step_progress = 10]

\* state.py:85-89
mark_completed(s, now) ==
    [s EXCEPT !.completed_at = now,
              !.current_step = "completed",
              !.step_progress = 10]

mark_error_reset(s, error_message) ==
    [s EXCEPT !.error_message = error_message,
              !.current_step = "error",
              !.running_summary = None,
              !.research_loop_count = 0]

mark_error_nomsg(s, error_message) ==
    [s EXCEPT !.current_step = "error"]

\* state.py:91-94
mark_error(s, error_message) ==
    [s EXCEPT !.error_message = error_message,
              !.current_step = "error"]

\* ---------------------------------------------------------------------
\* ResearchState.get_progress_percentage (state.py:31-76)
\* ---------------------------------------------------------------------

\* The floats of the computation are kept as exact fractions <<n, d>>, d > 0.
Frac(n, d) == <<n, d>>
FAdd(a, b) == <<a[1] * b[2] + b[1] * a[2], a[2] * b[2]>>
FMul(a, b) == <<a[1] * b[1], a[2] * b[2]>>
FLe(a, b) == a[1] * b[2] <= b[1] * a[2]
FLt(a, b) == a[1] * b[2] < b[1] * a[2]
FEq(a, b) == a[1] * b[2] = b[1] * a[2]
FMin(a, b) == IF FLe(a, b) THEN a ELSE b
Max(a, b) == IF a >= b THEN a ELSE b

\* state.py:39-45
step_order == <<"generate_query", "web_research", "summarize_sources",
                "reflect_on_summary", "finalize_summary">>

\* state.py:44-50
step_weights == [generate_query |-> 10, web_research |-> 40,
                 summarize_sources |-> 25, reflect_on_summary |-> 15,
                 finalize_summary |-> 10]

\* step_order.index(step), counted from 0; -1 stands for ValueError
step_index(step) ==
    IF \E i \in 1..Len(step_order) : step_order[i] = step
    THEN (CHOOSE i \in 1..Len(step_order) : step_order[i] = step) - 1
    ELSE -1

completed_progress_none(index) == 0

\* sum(step_weights[step_order[i]] for i in range(index))
RECURSIVE completed_progress(_)
completed_progress(index) ==
    IF index <= 0 THEN 0
    ELSE completed_progress(index - 1) + step_weights[step_order[index]]

\* step_weights[current_step] * self.step_progress
current_step_progress(s) ==
    FMul(Frac(step_weights[s.current_step], 1), Frac(s.step_progress, 10))

\* min(1.0, research_loop_count / max(1, total_steps))
loop_factor(s) ==
    FMin(Frac(1, 1), Frac(s.research_loop_count, Max(1, s.total_steps)))

loop_adjusted_all(s, total_progress) ==
    IF s.current_step \in {"web_research", "summarize_sources",
                           "reflect_on_summary"}
    THEN FAdd(FAdd(Frac(10, 1), FMul(Frac(40, 1), loop_factor(s))),
              current_step_progress(s))
    ELSE total_progress

\* the adjustment for the steps inside the research loop: only
\* web_research replaces the total
loop_adjusted(s, total_progress) ==
    IF s.current_step \in {"web_research", "summarize_sources",
                           "reflect_on_summary"}
    THEN IF s.current_step = "web_research"
         THEN FAdd(FAdd(Frac(10, 1), FMul(Frac(40, 1), loop_factor(s))),
                   current_step_progress(s))
         ELSE total_progress
    ELSE total_progress

get_progress_percentage_noearly(s) ==
    IF step_index(s.current_step) = -1 THEN Frac(100, 1)
    ELSE FMin(Frac(100, 1),
              loop_adjusted(s,
                  FAdd(Frac(completed_progress(step_index(s.current_step)), 1),
                       current_step_progress(s))))

get_progress_percentage_unknownzero(s) ==
    IF s.current_step = "completed" THEN Frac(100, 1)
    ELSE IF s.current_step = "idle" THEN Frac(0, 1)
    ELSE IF step_index(s.current_step) = -1 THEN Frac(0, 1)
    ELSE FMin(Frac(100, 1),
              loop_adjusted(s,
                  FAdd(Frac(completed_progress(step_index(s.current_step)), 1),
                       current_step_progress(s))))

get_progress_percentage(s) ==
    IF s.current_step = "completed" THEN Frac(100, 1)
    ELSE IF s.current_step = "idle" THEN Frac(0, 1)
    ELSE IF step_index(s.current_step) = -1 THEN Frac(100, 1)
    ELSE FMin(Frac(100, 1),
              loop_adjusted(s,
                  FAdd(Frac(completed_progress(step_index(s.current_step)), 1),
                       current_step_progress(s))))

\* ---------------------------------------------------------------------
\* The compiled graph (graph.py:35-58) and its channels
\* ---------------------------------------------------------------------

\* graph.invoke({"research_topic": topic}): the channels after the input
Channels_input(topic) ==
    [research_topic |-> topic, search_query |-> None,
     web_research_results |-> <<>>, sources_gathered |-> <<>>,
     research_loop_count |-> 0, running_summary |-> None]

\* an executor's state that is not given the channel's search_query
NodeState_noquery(c) ==
    [ResearchState_default EXCEPT
        !.research_topic = c.research_topic,
        !.web_research_results = c.web_research_results,
        !.sources_gathered = c.sources_gathered,
        !.research_loop_count = c.research_loop_count,
        !.running_summary = c.running_summary]

\* the ResearchState an executor receives: channel values, defaults elsewhere
NodeState(c) ==
    [ResearchState_default EXCEPT
        !.research_topic = c.research_topic,
        !.search_query = c.search_query,
        !.web_research_results = c.web_research_results,
        !.sources_gathered = c.sources_gathered,
        !.research_loop_count = c.research_loop_count,
        !.running_summary = c.running_summary]

\* a merge in which a returned list replaces the channel's list
ApplyDelta_overwrite(c, delta) ==
    [f \in DOMAIN c |-> IF f \in DOMAIN delta THEN delta[f] ELSE c[f]]

\* merge of an executor's returned dict into the channels: the two
\* Annotated[..., operator.add] fields concatenate, the others overwrite
ApplyDelta(c, delta) ==
    [f \in DOMAIN c |->
        IF f \notin DOMAIN delta THEN c[f]
        ELSE IF f \in {"web_research_results", "sources_gathered"}
             THEN c[f] \o delta[f]
             ELSE delta[f]]

_route_research_forever(loop_count, max_loops) == "web_research"

_route_research_strict(loop_count, max_loops) ==
    IF loop_count < max_loops THEN "web_research" ELSE "finalize_summary"

_route_research_inverted(loop_count, max_loops) ==
    IF loop_count <= max_loops THEN "finalize_summary" ELSE "web_research"

_route_research_late(loop_count, max_loops) ==
    IF loop_count <= max_loops + 1 THEN "web_research" ELSE "finalize_summary"

\* graph.py:308-313
_route_research(loop_count, max_loops) ==
    IF loop_count <= max_loops THEN "web_research" ELSE "finalize_summary"

_build_graph_skip(from, c) ==
    CASE from = "START" -> "generate_query"
      [] from = "generate_query" -> "web_research"
      [] from = "web_research" -> "reflect_on_summary"
      [] from = "summarize_sources" -> "reflect_on_summary"
      [] from = "reflect_on_summary" ->
            _route_research(c.research_loop_count,
                            config.max_web_research_loops)
      [] from = "finalize_summary" -> "END"

\* graph.py:50-56: the edges; the node that follows `from` when the
\* channels are c
_build_graph(from, c) ==
    CASE from = "START" -> "generate_query"
      [] from = "generate_query" -> "web_research"
      [] from = "web_research" -> "summarize_sources"
      [] from = "summarize_sources" -> "reflect_on_summary"
      [] from = "reflect_on_summary" ->
            _route_research(c.research_loop_count,
                            config.max_web_research_loops)
      [] from = "finalize_summary" -> "END"

\* ---------------------------------------------------------------------
\* Progress callback (graph.py:29-33, app.py:130-136)
\* ---------------------------------------------------------------------

\* can an invocation of the registered callback throw?  None is registered
\* by test_research.py:40; app.py's callback catches its own exceptions; a
\* callback of another caller is any callable.
CallbackOutcomes ==
    IF progress_callback = "custom" THEN {"ok", "throw"} ELSE {"ok"}

\* app.py:134: the app's callback points the session at the reported object
Callback_session(ss) ==
    IF progress_callback = "app"
    THEN [ss EXCEPT !.research_state = "ns"]
    ELSE ss

\* graph.py:32-33: the callback, when one is registered, is handed the
\* state; what it is told is kept as the step and the estimate it reads
Report(told, s) ==
    IF progress_callback = "none" THEN told
    ELSE Append(told, [step |-> s.current_step,
                       pct |-> get_progress_percentage(s)])

\* graph.py:29-33, the part that writes the state; the callback invocation
\* that follows it is in the actions
_update_progress(s, step_name, progress, details) ==
    update_step(s, step_name, progress, details)

\* ---------------------------------------------------------------------
\* Init
\* ---------------------------------------------------------------------

\* app.py:104-128
initialize_session_state ==
    [research_state |-> "none", research_running |-> FALSE,
     research_results |-> 0, research_error |-> None]

\* no pure function is being called
NoCall == [call |-> "none", arg |-> <<>>, done |-> FALSE, result |-> <<>>]

\* the application before any run
PipelineInit ==
    /\ config = [max_web_research_loops |-> 3,       \* settings.py:25
                 search_api |-> <<"duckduckgo">>,    \* settings.py:59
                 strip_thinking_tokens |-> TRUE]     \* settings.py:72
    /\ progress_callback = "none"
    /\ pc = "idle"
    /\ node = "END"
    /\ ch = Channels_input(None)
    /\ ns = ResearchState_default
    /\ rs = ResearchState_default
    /\ app_rs = ResearchState_default
    /\ exc = None
    /\ session_state = initialize_session_state
    /\ db = <<>>
    /\ clock = 1
    /\ uuids = 0
    /\ runs = 0
    /\ entered = <<>>
    /\ search_calls = 0
    /\ searched = None
    /\ sync_result = "none"
    /\ cap_failed = FALSE
    /\ cb_threw = FALSE
    /\ llm_calls = 0
    /\ result = NoResult
    /\ reports = <<>>
    /\ vs = VectorStore

Init ==
    /\ fn = NoCall
    /\ PipelineInit

\* ---------------------------------------------------------------------
\* Starting a run
\* ---------------------------------------------------------------------

\* no run is executing
Quiescent ==
    \/ pc \in {"idle", "sync_done"}
    \/ pc \in {"returned", "raised"} /\ progress_callback # "app"

\* graph.py:315-327: run_research up to the point where the graph is about
\* to enter its first node.  uid and now are the uuid4() and now() values.
run_research_begin(topic, uid, now) ==
    /\ rs' = [ResearchState_default EXCEPT
                !.research_topic = topic,
                !.session_id = uid,
                !.started_at = now,
                !.total_steps = config'.max_web_research_loops]
    /\ ch' = Channels_input(topic)
    /\ node' = _build_graph("START", ch')
    /\ pc' = "enter"
    /\ exc' = None
    /\ entered' = <<>>
    /\ search_calls' = 0
    /\ searched' = None
    /\ cap_failed' = FALSE
    /\ cb_threw' = FALSE
    /\ llm_calls' = 0
    /\ result' = NoResult
    /\ reports' = <<>>
    /\ runs' = runs + 1

\* app.py:289-295 and 138-156: the Start Research button
run_research_sync_begin ==
    /\ Quiescent
    /\ runs = 0 \/ progress_callback = "app"     \* the app's own process
    /\ runs < MaxRuns
    /\ ~session_state.research_running
    /\ \E n \in MinLoops..MaxLoopsBound, topic \in Topics,
          strip \in BOOLEAN, api \in SearchAPIs :
        /\ config' = [max_web_research_loops |-> n, search_api |-> api,
                      strip_thinking_tokens |-> strip]
        /\ progress_callback' = "app"
        /\ app_rs' = [ResearchState_default EXCEPT
                        !.research_topic = topic,
                        !.session_id = uuids + 1,
                        !.started_at = clock]
        /\ session_state' = [session_state EXCEPT
                                !.research_running = TRUE,
                                !.research_error = None,
                                !.research_state = "app_rs"]
        /\ run_research_begin(topic, uuids + 2, clock + 1)
        /\ uuids' = uuids + 2
        /\ clock' = clock + 2
    /\ sync_result' = "none"
    /\ UNCHANGED <<fn, vs, ns, db>>

\* test_research.py:40-55, or any other caller of create_research_graph
\* and run_research, which may register a callback of its own
script_run_begin ==
    /\ Quiescent
    /\ runs = 0 \/ progress_callback # "app"     \* a process of its own
    /\ runs < MaxRuns
    /\ \E n \in MinLoops..MaxLoopsBound, topic \in Topics,
          cb \in {"none", "custom"}, strip \in BOOLEAN,
          api \in SearchAPIs \cup OtherAPIs :
        /\ config' = [max_web_research_loops |-> n, search_api |-> api,
                      strip_thinking_tokens |-> strip]
        /\ progress_callback' = cb
        /\ run_research_begin(topic, uuids + 1, clock)
        /\ uuids' = uuids + 1
        /\ clock' = clock + 1
    /\ UNCHANGED <<fn, vs, ns, app_rs, session_state, db, sync_result>>

\* ---------------------------------------------------------------------
\* Step executors (graph.py:60-306)
\* ---------------------------------------------------------------------

\* what an executor leaves alone
ExecutorFrame ==
    UNCHANGED <<fn, vs, config, progress_callback, rs, app_rs, db, uuids, runs,
                sync_result>>

\* first statement of an executor: _update_progress(state, name, progress,
\* details) before its try block (graph.py:62, 107, 175, 224, 264).  A
\* callback exception here leaves the executor at once.
ExecutorBegin(name, progress, details) ==
    /\ pc = "enter"
    /\ node = name
    /\ ns' = _update_progress(NodeState(ch), name, progress, details)
    /\ session_state' = Callback_session(session_state)
    /\ entered' = Append(entered, name)
    /\ reports' = Report(reports, ns')
    /\ result' = NoResult
    /\ \E outcome \in CallbackOutcomes :
        IF outcome = "throw"
        THEN /\ exc' = CallbackError
             /\ cb_threw' = TRUE
             /\ pc' = "invoke_raised"
        ELSE /\ exc' = exc
             /\ cb_threw' = cb_threw
             /\ pc' = "try"
    /\ searched' = None
    /\ UNCHANGED <<node, ch, clock, search_calls, cap_failed, llm_calls>>
    /\ ExecutorFrame

\* except clause of an executor (graph.py:100-103, 168-171, 217-220,
\* 257-260, 303-306): mark_error, report, re-raise.  s is the executor's
\* object when the exception e is caught, told the reports made so far.
ExecutorExcept(s, prefix, e, told) ==
    /\ ns' = _update_progress(mark_error(s, <<prefix>> \o e), "error", 0,
                              [error |-> e])
    /\ reports' = Report(told, ns')
    /\ session_state' = Callback_session(session_state)
    /\ \E outcome \in CallbackOutcomes :
        IF outcome = "throw"
        THEN exc' = CallbackError /\ cb_threw' = TRUE
        ELSE exc' = e /\ cb_threw' = (cb_threw \/ e = CallbackError)
    /\ pc' = "invoke_raised"
    /\ UNCHANGED <<node, ch>>

\* end of an executor's try block: the closing _update_progress and the
\* return of delta, which the graph merges before it follows the edge
ExecutorReturn(s, prefix, delta) ==
    \E outcome \in CallbackOutcomes :
        IF outcome = "throw"
        THEN ExecutorExcept(s, prefix, CallbackError, Report(reports, s))
        ELSE /\ ns' = s
             /\ reports' = Report(reports, s)
             /\ session_state' = Callback_session(session_state)
             /\ ch' = ApplyDelta(ch, delta)
             /\ node' = _build_graph(node, ch')
             /\ pc' = IF node' = "END" THEN "invoke_returned" ELSE "enter"
             /\ UNCHANGED <<exc, cb_threw>>

\* graph.py:60-62
_generate_query_begin ==
    /\ node = "generate_query"
    /\ ExecutorBegin("generate_query", 1,
                  [status |-> <<"Generating search query...">>])

\* graph.py:78-90: json.loads, query_data['query'] and
\* query_data.get('rationale', ''), with the fallback of the inner except
\* (json.JSONDecodeError, KeyError).  Subscripting parsed JSON that is not
\* an object raises TypeError, which that except clause does not name.
parse_query(content, c) ==
    IF content.json = "other"
    THEN [raised |-> TypeError, search_query |-> None, rationale |-> None]
    ELSE IF content.json = "invalid" \/ "query" \notin content.keys
    THEN [raised |-> None,
          search_query |-> IF c.strip_thinking_tokens
                           THEN strip_thinking_tokens(content.text)
                           ELSE content.text,
          rationale |-> <<"Generated query">>]
    ELSE [raised |-> None,
          search_query |-> content.fields.query,
          rationale |-> IF "rationale" \in content.keys
                        THEN content.fields.rationale
                        ELSE <<"">>]

\* graph.py:64-103
_generate_query ==
    /\ pc = "try"
    /\ node = "generate_query"
    /\ llm_calls' = invoke(llm_calls)
    /\ \/ \E content \in QueryResponses :
            LET parsed == parse_query(content, config)
            IN  /\ result' = content
                /\ IF parsed.raised # None
                   THEN ExecutorExcept(ns, "Query generation failed: ",
                                       parsed.raised, reports)
                   ELSE ExecutorReturn(
                            _update_progress(ns, "generate_query", 10,
                                [status |-> <<"Query generated successfully">>,
                                 query |-> parsed.search_query,
                                 rationale |-> parsed.rationale]),
                            "Query generation failed: ",
                            [search_query |-> parsed.search_query])
                /\ UNCHANGED cap_failed
       \/ /\ ExecutorExcept(ns, "Query generation failed: ", LLMError,
                            reports)
          /\ cap_failed' = TRUE
          /\ UNCHANGED result
    /\ UNCHANGED <<clock, entered, search_calls, searched>>
    /\ ExecutorFrame

\* graph.py:105-110
_web_research_begin ==
    /\ node = "web_research"
    /\ ExecutorBegin("web_research", 1,
                  [status |-> <<"Searching web (loop ",
                                ToString(ch.research_loop_count + 1), "/",
                                ToString(config.max_web_research_loops),
                                ")...">>,
                   query |-> ch.search_query])

\* graph.py:141-145: the text deduplicate_and_format_sources makes of what
\* the call-th search of the run returned
search_str(call) == <<"results of search ", ToString(call)>>

\* graph.py:112-171
_web_research ==
    /\ pc = "try"
    /\ node = "web_research"
    /\ IF get_config_value(config.search_api) \notin SearchAPIs
       THEN \* graph.py:137-138
            /\ ExecutorExcept(ns, "Web research failed: ",
                              ValueError(config.search_api), reports)
            /\ UNCHANGED <<search_calls, searched, cap_failed>>
       ELSE /\ search_calls' = search_calls + 1
            /\ searched' = ns.search_query
            /\ \/ \E sources_list \in SearchResults :
                    /\ ExecutorReturn(
                            _update_progress(ns, "web_research", 10,
                                [status |-> <<"Found ",
                                              ToString(Len(sources_list)),
                                              " sources">>,
                                 sources_count |-> Len(sources_list),
                                 search_api |->
                                    get_config_value(config.search_api)]),
                            "Web research failed: ",
                            [sources_gathered |-> sources_list,
                             research_loop_count |->
                                ns.research_loop_count + 1,
                             web_research_results |->
                                <<search_str(search_calls')>>])
                    /\ UNCHANGED cap_failed
               \/ /\ ExecutorExcept(ns, "Web research failed: ", SearchError,
                                    reports)
                  /\ cap_failed' = TRUE
    /\ UNCHANGED <<clock, entered, llm_calls, result>>
    /\ ExecutorFrame

\* graph.py:173-177
_summarize_sources_begin ==
    /\ node = "summarize_sources"
    /\ ExecutorBegin("summarize_sources", 1,
                  [status |-> <<"Analyzing and summarizing sources...">>])

\* graph.py:179-220
_summarize_sources ==
    /\ pc = "try"
    /\ node = "summarize_sources"
    /\ IF Len(ns.web_research_results) = 0
       THEN \* web_research_results[-1] raises IndexError
            /\ ExecutorExcept(ns, "Summarization failed: ", IndexError,
                              reports)
            /\ UNCHANGED <<cap_failed, llm_calls, result>>
       ELSE /\ llm_calls' = invoke(llm_calls)
            /\ \/ /\ \E text \in LLMSummaries :
                        LET running_summary ==
                                IF config.strip_thinking_tokens
                                THEN strip_thinking_tokens(text)
                                ELSE text
                        IN  /\ result' = Content("text", {}, NoFields, text)
                            /\ ExecutorReturn(
                                 _update_progress(ns, "summarize_sources", 10,
                                    [status |-> <<"Summary updated">>,
                                     summary_length |->
                                        Len(running_summary)]),
                                 "Summarization failed: ",
                                 [running_summary |-> running_summary])
                  /\ UNCHANGED cap_failed
               \/ /\ ExecutorExcept(ns, "Summarization failed: ", LLMError,
                                    reports)
                  /\ cap_failed' = TRUE
                  /\ UNCHANGED result
    /\ UNCHANGED <<clock, entered, search_calls, searched>>
    /\ ExecutorFrame

\* graph.py:222-226
_reflect_on_summary_begin ==
    /\ node = "reflect_on_summary"
    /\ ExecutorBegin("reflect_on_summary", 1,
                  [status |-> <<"Identifying knowledge gaps...">>])

\* f"Tell me more about {state.research_topic}"
generic_follow_up(topic) == <<"Tell me more about ">> \o topic

parse_reflection_strict(content, topic) ==
    IF content.json # "object"
    THEN [follow_up_query |-> generic_follow_up(topic),
          knowledge_gap |-> <<"Additional information needed">>]
    ELSE [follow_up_query |-> IF "follow_up_query" \in content.keys
                              THEN content.fields.follow_up_query
                              ELSE None,
          knowledge_gap |-> IF "knowledge_gap" \in content.keys
                            THEN content.fields.knowledge_gap
                            ELSE <<"">>]

\* graph.py:238-249: json.loads, the two .get calls and the fallbacks; a
\* reply that is not valid JSON or not an object ends in the except clause
\* (json.JSONDecodeError, KeyError, AttributeError)
parse_reflection(content, topic) ==
    IF content.json # "object"
    THEN [follow_up_query |-> generic_follow_up(topic),
          knowledge_gap |-> <<"Additional information needed">>]
    ELSE LET follow_up_query == IF "follow_up_query" \in content.keys
                                THEN content.fields.follow_up_query
                                ELSE None
         IN  [follow_up_query |-> IF Falsy(follow_up_query)
                                  THEN generic_follow_up(topic)
                                  ELSE follow_up_query,
              knowledge_gap |-> IF "knowledge_gap" \in content.keys
                                THEN content.fields.knowledge_gap
                                ELSE <<"">>]

\* graph.py:228-260
_reflect_on_summary ==
    /\ pc = "try"
    /\ node = "reflect_on_summary"
    /\ llm_calls' = invoke(llm_calls)
    /\ \/ /\ \E content \in ReflectResponses :
                LET parsed == parse_reflection(content, ns.research_topic)
                IN  /\ result' = content
                    /\ ExecutorReturn(
                         _update_progress(ns, "reflect_on_summary", 10,
                            [status |-> <<"Knowledge gap identified">>,
                             knowledge_gap |-> parsed.knowledge_gap,
                             follow_up_query |-> parsed.follow_up_query]),
                         "Reflection failed: ",
                         [search_query |-> parsed.follow_up_query])
          /\ UNCHANGED cap_failed
       \/ /\ ExecutorExcept(ns, "Reflection failed: ", LLMError, reports)
          /\ cap_failed' = TRUE
          /\ UNCHANGED result
    /\ UNCHANGED <<clock, entered, search_calls, searched>>
    /\ ExecutorFrame

\* source.startswith('http')
startswith_http(source) == Len(source) > 0 /\ source[1] \in HttpLines

\* line.strip() is non-empty
NonBlank(line) == line \notin {"", " "}

\* graph.py:281-284: the inner loop over source.split('\\n'); acc is
\* [seen, unique]
RECURSIVE dedup_lines(_, _)
dedup_lines(lines, acc) ==
    IF lines = <<>> THEN acc
    ELSE LET line == <<Head(lines)>>
             acc1 == IF NonBlank(Head(lines)) /\ line \notin acc.seen
                     THEN [seen |-> acc.seen \cup {line},
                           unique |-> Append(acc.unique, line)]
                     ELSE acc
         IN  dedup_lines(Tail(lines), acc1)

\* graph.py:270-284: the loop over state.sources_gathered
RECURSIVE dedup_sources(_, _)
dedup_sources(sources, acc) ==
    IF sources = <<>> THEN acc
    ELSE LET source == Head(sources)
             acc1 == IF startswith_http(source) /\ source \notin acc.seen
                     THEN [seen |-> acc.seen \cup {source},
                           unique |-> Append(acc.unique, source)]
                     ELSE dedup_lines(source, acc)
         IN  dedup_sources(Tail(sources), acc1)

unique_sources(sources) ==
    dedup_sources(sources, [seen |-> {}, unique |-> <<>>]).unique

\* graph.py:288-289: "{i+1}. {source}" for each source, joined by newlines
RECURSIVE numbered_sources(_, _)
numbered_sources(unique, i) ==
    IF unique = <<>> THEN <<>>
    ELSE <<ToString(i), ". ">> \o Head(unique)
         \o numbered_sources(Tail(unique), i + 1)

\* graph.py:287-292
final_summary(running_summary, unique) ==
    IF unique # <<>>
    THEN <<"## Summary">> \o running_summary \o <<"", "### Sources:">>
         \o numbered_sources(unique, 1)
    ELSE <<"## Summary">> \o running_summary

\* graph.py:262-266
_finalize_summary_begin ==
    /\ node = "finalize_summary"
    /\ ExecutorBegin("finalize_summary", 5,
                  [status |-> <<"Finalizing research report...">>])

\* graph.py:268-306
_finalize_summary ==
    /\ pc = "try"
    /\ node = "finalize_summary"
    /\ LET unique == unique_sources(ns.sources_gathered)
           summary == final_summary(ns.running_summary, unique)
       IN  ExecutorReturn(
                _update_progress(mark_completed(ns, clock), "completed", 10,
                    [status |-> <<"Research completed successfully">>,
                     total_sources |-> Len(unique),
                     summary_length |-> Len(summary)]),
                "Finalization failed: ",
                [running_summary |-> summary])
    /\ clock' = clock + 1
    /\ UNCHANGED <<entered, search_calls, searched, cap_failed, llm_calls,
                   result>>
    /\ ExecutorFrame

\* ---------------------------------------------------------------------
\* run_research: after graph.invoke (graph.py:327-337)
\* ---------------------------------------------------------------------

run_research_return_nosummary ==
    /\ pc = "invoke_returned"
    /\ rs' = mark_completed(rs, clock)
    /\ clock' = clock + 1
    /\ pc' = "returned"
    /\ UNCHANGED <<fn, vs, llm_calls, result, reports, config,
                   progress_callback, node, ch, ns, app_rs, exc,
                   session_state, db, uuids, runs, entered, search_calls,
                   searched, sync_result,
                   cap_failed, cb_threw>>

\* graph.py:327-333: invoke returned the output channels
run_research_return ==
    /\ pc = "invoke_returned"
    /\ rs' = mark_completed(
                [rs EXCEPT !.running_summary = ch.running_summary], clock)
    /\ clock' = clock + 1
    /\ pc' = "returned"
    /\ UNCHANGED <<fn, vs, llm_calls, result, reports, config,
                   progress_callback, node, ch, ns, app_rs, exc,
                   session_state, db, uuids, runs, entered, search_calls,
                   searched, sync_result,
                   cap_failed, cb_threw>>

run_research_except_swallow ==
    /\ pc = "invoke_raised"
    /\ rs' = mark_error(rs, exc)
    /\ pc' = "returned"
    /\ UNCHANGED <<fn, vs, llm_calls, result, reports, config,
                   progress_callback, node, ch, ns, app_rs, exc,
                   session_state, db, clock, uuids, runs, entered,
                   search_calls, searched, sync_result, cap_failed, cb_threw>>

\* graph.py:335-337: invoke raised; record str(e) and re-raise
run_research_except ==
    /\ pc = "invoke_raised"
    /\ rs' = mark_error(rs, exc)
    /\ pc' = "raised"
    /\ UNCHANGED <<fn, vs, llm_calls, result, reports, config,
                   progress_callback, node, ch, ns, app_rs, exc,
                   session_state, db, clock, uuids, runs, entered,
                   search_calls, searched, sync_result, cap_failed, cb_threw>>

\* ---------------------------------------------------------------------
\* The caller in app.py
\* ---------------------------------------------------------------------

\* state.mark_error(msg) on the object st.session_state.research_state
\* refers to
mark_error_ref(ref, msg) ==
    /\ ns' = IF ref = "ns" THEN mark_error(ns, msg) ELSE ns
    /\ rs' = IF ref = "rs" THEN mark_error(rs, msg) ELSE rs
    /\ app_rs' = IF ref = "app_rs" THEN mark_error(app_rs, msg) ELSE app_rs

\* ---------------------------------------------------------------------
\* VectorStore (storage/vector_store.py): the persisted record shape
\* ---------------------------------------------------------------------

\* json.dumps and json.loads: the text names its format and holds the value
json_dumps(value) == <<"json", value>>
json_loads(text) == text[2]

\* datetime.isoformat and datetime.fromisoformat
isoformat(t) == <<"iso", t>>
fromisoformat(text) == text[2]

\* vector_store.py:63-65
_serialize_embedding(embedding) == <<"float32", embedding>>

\* vector_store.py:67-69
_deserialize_embedding(embedding_bytes) == embedding_bytes[2]

\* a dict is a one-element tuple holding its set of items, so that None
\* and the empty dict differ
Dict(items) == <<items>>

\* bool(x) for x a dict or None
Truthy(x) == x # None /\ x[1] # {}

\* model.encode(text): the vector of a text.  The vectors have whole
\* lengths, so that cosine similarities are exact fractions.
Embeddings ==
    (<<"T1", "\n\n", "S">> :> <<3, 4>>) @@ (<<"T2", "\n\n", "S">> :> <<4, 3>>)
    @@ (<<"T3", "\n\n", "S">> :> <<3, 4>>) @@ (<<"q">> :> <<5, 0>>)

encode(text) ==
    IF text \in DOMAIN Embeddings THEN Embeddings[text] ELSE <<0, 5>>

Dot(a, b) == a[1] * b[1] + a[2] * b[2]
Norm(a) == CHOOSE k \in 0..Dot(a, a) : k * k = Dot(a, a)

\* sklearn's cosine_similarity of two vectors (vector_store.py:186-189);
\* a zero vector has similarity 0 to everything
cosine_similarity(a, b) ==
    IF Norm(a) = 0 \/ Norm(b) = 0 THEN Frac(0, 1)
    ELSE Frac(Dot(a, b), Norm(a) * Norm(b))

\* settings.py:97-98 and vector_store.py:32
ConfiguredModel == <<"configured model">>
DefaultModel == <<"all-MiniLM-L6-v2">>

\* what loading can do when self.model is None (vector_store.py:25-33):
\*   ok                  the configured model loads
\*   fallback            the configured load fails, the default loads
\*   none                both constructors fail
\*   configured_unmoved  the configured model is constructed, moving it
\*                       fails, the default constructor fails
\*   default_unmoved     the default is constructed, moving it fails
LoadOutcomes ==
    {"ok", "fallback", "none", "configured_unmoved", "default_unmoved"}

_get_model_always(store, load) ==
    [store |-> [store EXCEPT !.model = ConfiguredModel],
     raised |-> FALSE,
     attempts |-> <<ConfiguredModel>>]

\* vector_store.py:22-34: the instance after the call, whether the call
\* raised, and the models whose constructors it called
_get_model(store, load) ==
    IF store.model # None
    THEN [store |-> store, raised |-> FALSE, attempts |-> <<>>]
    ELSE IF load = "ok"
    THEN [store |-> [store EXCEPT !.model = ConfiguredModel],
          raised |-> FALSE,
          attempts |-> <<ConfiguredModel>>]
    ELSE IF load = "fallback"
    THEN [store |-> [store EXCEPT !.model = DefaultModel],
          raised |-> FALSE,
          attempts |-> <<ConfiguredModel, DefaultModel>>]
    ELSE [store |-> [store EXCEPT
                        !.model = IF load = "configured_unmoved"
                                  THEN ConfiguredModel
                                  ELSE IF load = "default_unmoved"
                                  THEN DefaultModel ELSE None],
          raised |-> TRUE,
          attempts |-> <<ConfiguredModel, DefaultModel>>]

\* vector_store.py:76-77 and 86-95: the row add_session binds
SessionRow(session) ==
    [id |-> session.id,
     topic |-> session.topic,
     summary |-> session.summary,
     sources |-> json_dumps(session.sources),
     created_at |-> isoformat(session.created_at),
     completed_at |-> IF session.completed_at # NoTime
                      THEN isoformat(session.completed_at) ELSE None,
     config |-> IF Truthy(session.config)
                THEN json_dumps(session.config) ELSE None,
     embedding |-> _serialize_embedding(
                       encode(session.topic \o <<"\n\n">> \o session.summary))]

\* vector_store.py:117-125, 147-155, 192-200: the session built from a row;
\* the embedding field keeps its default
SessionOfRow(row) ==
    [id |-> row.id,
     topic |-> row.topic,
     summary |-> row.summary,
     sources |-> json_loads(row.sources),
     created_at |-> fromisoformat(row.created_at),
     completed_at |-> IF row.completed_at # None
                      THEN fromisoformat(row.completed_at) ELSE NoTime,
     config |-> IF row.config # None THEN json_loads(row.config) ELSE None,
     embedding |-> None]

StoredIds(rows) == {rows[i].id : i \in 1..Len(rows)}

RECURSIVE without_id(_, _)
without_id(rows, id) ==
    IF rows = <<>> THEN <<>>
    ELSE IF Head(rows).id = id THEN without_id(Tail(rows), id)
         ELSE <<Head(rows)>> \o without_id(Tail(rows), id)

insert_or_replace_keep(rows, row) ==
    IF row.id \in StoredIds(rows) THEN rows ELSE Append(rows, row)

\* INSERT OR REPLACE on the primary key id (vector_store.py:44, 82-95): a
\* row with the same id is deleted and the new row is inserted last
insert_or_replace(rows, row) == Append(without_id(rows, row.id), row)

\* vector_store.py:71-102: whatever raises inside the try block makes the
\* call return False; the transaction is committed only at its end
add_session(store, rows, session, load, embed_ok, storage_ok) ==
    LET got == _get_model(store, load)
    IN  IF got.raised \/ ~embed_ok \/ ~storage_ok
        THEN [store |-> got.store, rows |-> rows, result |-> FALSE,
              attempts |-> got.attempts]
        ELSE [store |-> got.store,
              rows |-> insert_or_replace(rows, SessionRow(session)),
              result |-> TRUE, attempts |-> got.attempts]

\* ORDER BY created_at DESC (vector_store.py:142, 178, 272): the orders a
\* query over rows can come back in; rows with equal created_at come in any
\* order
OrderByRowid(rows) == {rows}

OrderByCreatedDesc(rows) ==
    { [i \in 1..Len(rows) |-> rows[p[i]]] :
        p \in { q \in [1..Len(rows) -> 1..Len(rows)] :
                  /\ \A i, j \in 1..Len(rows) : q[i] = q[j] => i = j
                  /\ \A i, j \in 1..Len(rows) :
                        i < j => fromisoformat(rows[q[i]].created_at)
                                 >= fromisoformat(rows[q[j]].created_at) } }

\* seq[:n] for n >= 0
Take(seq, n) == SubSeq(seq, 1, IF n < Len(seq) THEN n ELSE Len(seq))

\* vector_store.py:181-201: the scan that keeps the rows at or over the
\* threshold, each with its score
RECURSIVE scored(_, _, _)
scored(rows, query_embedding, threshold) ==
    IF rows = <<>> THEN <<>>
    ELSE LET similarity ==
                cosine_similarity(query_embedding,
                    _deserialize_embedding(Head(rows).embedding))
             rest == scored(Tail(rows), query_embedding, threshold)
         IN  IF FLe(threshold, similarity)
             THEN <<[session |-> SessionOfRow(Head(rows)),
                     score |-> similarity]>> \o rest
             ELSE rest

\* list.sort(key=score, reverse=True): stable, so equal scores stay in the
\* order they had (vector_store.py:204)
RECURSIVE sort_by_score(_)
sort_by_score(results) ==
    IF results = <<>> THEN <<>>
    ELSE LET x == Head(results)
             rest == sort_by_score(Tail(results))
             before == SelectSeq(rest, LAMBDA r : FLt(x.score, r.score))
             after == SelectSeq(rest, LAMBDA r : FLe(r.score, x.score))
         IN  before \o <<x>> \o after

search_similar_unsorted(ordered, query, limit, threshold) ==
    Take(scored(ordered, encode(query), threshold), limit)

\* vector_store.py:168-205 for one order of the SELECT
search_similar(ordered, query, limit, threshold) ==
    Take(sort_by_score(scored(ordered, encode(query), threshold)), limit)

\* vector_store.py:146-157 for one order of the SELECT ... LIMIT ?
RECURSIVE sessions_of(_)
sessions_of(rows) ==
    IF rows = <<>> THEN <<>>
    ELSE <<SessionOfRow(Head(rows))>> \o sessions_of(Tail(rows))

get_recent_sessions(ordered, limit) == sessions_of(Take(ordered, limit))

\* vector_store.py:109-127
get_session(rows, session_id) ==
    IF session_id \in StoredIds(rows)
    THEN SessionOfRow(
            rows[CHOOSE i \in 1..Len(rows) : rows[i].id = session_id])
    ELSE None

RECURSIVE with_ids(_, _)
with_ids(rows, ids) ==
    IF rows = <<>> THEN <<>>
    ELSE IF Head(rows).id \in ids
         THEN <<Head(rows)>> \o with_ids(Tail(rows), ids)
         ELSE with_ids(Tail(rows), ids)

cleanup_old_sessions_oldest(rows, ordered, keep_recent) ==
    with_ids(rows, StoredIds(SubSeq(ordered,
                Len(ordered) - Len(Take(ordered, keep_recent)) + 1,
                Len(ordered))))

\* vector_store.py:268-275 for one order of the inner SELECT: the rows
\* whose id is among the first keep_recent stay
cleanup_old_sessions(rows, ordered, keep_recent) ==
    with_ids(rows, StoredIds(Take(ordered, keep_recent)))

delete_session_all(rows, session_id) ==
    [rows |-> <<>>, result |-> session_id \in StoredIds(rows)]

\* vector_store.py:213-218: DELETE ... WHERE id = ? and rowcount > 0
delete_session(rows, session_id) ==
    [rows |-> without_id(rows, session_id),
     result |-> session_id \in StoredIds(rows)]

\* vector_store.py:226-251; recent is the count of the last seven days,
\* which depends on the wall clock
get_stats(rows, recent) ==
    Dict({<<"total_sessions", Len(rows)>>,
          <<"sessions_with_embeddings",
            Len(SelectSeq(rows, LAMBDA r : r.embedding # None))>>,
          <<"recent_sessions", recent>>,
          <<"embedding_model", ConfiguredModel>>,
          <<"embedding_dimension", 384>>})

\* ResearchConfig.model_dump() (app.py:170): the settings as a dict
model_dump(c) ==
    Dict({<<"max_web_research_loops", c.max_web_research_loops>>,
          <<"search_api", c.search_api>>,
          <<"strip_thinking_tokens", c.strip_thinking_tokens>>})

\* app.py:163-171
ResearchSession(final_state) ==
    [id |-> final_state.session_id,
     topic |-> final_state.research_topic,
     summary |-> final_state.running_summary,
     sources |-> final_state.sources_gathered,
     created_at |-> final_state.started_at,
     completed_at |-> final_state.completed_at,
     config |-> model_dump(config),
     embedding |-> None]

\* app.py:156-181: run_research returned final_state
run_research_sync_return ==
    /\ pc = "returned"
    /\ progress_callback = "app"
    /\ IF rs.current_step = "completed"
       THEN \* add_session stores the row or fails and returns False
            \E storage_ok \in BOOLEAN :
                LET added == add_session(vs, db, ResearchSession(rs), "ok",
                                         TRUE, storage_ok)
                IN  /\ db' = added.rows
                    /\ vs' = added.store
                    /\ session_state' = [session_state EXCEPT
                                        !.research_state = "rs",
                                        !.research_results = rs.session_id,
                                        !.research_running = FALSE]
       ELSE /\ db' = db
            /\ vs' = vs
            /\ session_state' = [session_state EXCEPT
                                    !.research_state = "rs",
                                    !.research_running = FALSE]
    /\ sync_result' = "rs"                      \* app.py:181
    /\ pc' = "sync_done"
    /\ UNCHANGED <<fn, llm_calls, result, reports, config,
                   progress_callback, node, ch, ns, rs, app_rs, exc,
                   clock, uuids, runs, entered, search_calls, searched,
                   cap_failed,
                   cb_threw>>

run_research_sync_except_silent ==
    /\ pc = "raised"
    /\ progress_callback = "app"
    /\ session_state' = [session_state EXCEPT !.research_running = FALSE]
    /\ mark_error_ref(session_state.research_state, exc)
    /\ exc' = None
    /\ sync_result' = "none"
    /\ pc' = "sync_done"
    /\ UNCHANGED <<fn, vs, llm_calls, result, reports, config,
                   progress_callback, node, ch, db, clock, uuids,
                   runs, entered, search_calls, searched, cap_failed,
                   cb_threw>>

run_research_sync_except_persist ==
    /\ pc = "raised"
    /\ progress_callback = "app"
    /\ session_state' = [session_state EXCEPT
                            !.research_error = exc,
                            !.research_running = FALSE]
    /\ mark_error_ref(session_state.research_state, exc)
    /\ exc' = None
    /\ sync_result' = "none"                    \* app.py:189
    /\ pc' = "sync_done"
    /\ db' = insert_or_replace(db, SessionRow(ResearchSession(rs)))
    /\ UNCHANGED <<fn, vs, llm_calls, result, reports, config,
                   progress_callback, node, ch, clock, uuids,
                   runs, entered, search_calls, searched, cap_failed, cb_threw>>

\* app.py:183-189: run_research raised
run_research_sync_except ==
    /\ pc = "raised"
    /\ progress_callback = "app"
    /\ session_state' = [session_state EXCEPT
                            !.research_error = exc,
                            !.research_running = FALSE]
    /\ mark_error_ref(session_state.research_state, exc)
    /\ exc' = None
    /\ sync_result' = "none"                    \* app.py:189
    /\ pc' = "sync_done"
    /\ UNCHANGED <<fn, vs, llm_calls, result, reports, config,
                   progress_callback, node, ch, db, clock, uuids,
                   runs, entered, search_calls, searched, cap_failed, cb_threw>>

\* app.py:272-276: the Stop Research button
stop_research ==
    /\ session_state.research_running
    /\ session_state' = [session_state EXCEPT !.research_running = FALSE]
    /\ mark_error_ref(session_state.research_state,
                      <<"Research stopped by user">>)
    /\ UNCHANGED <<fn, vs, llm_calls, result, reports, config,
                   progress_callback, pc, node, ch, exc, db, clock,
                   uuids, runs, entered, search_calls, searched,
                   sync_result, cap_failed, cb_threw>>

\* ---------------------------------------------------------------------
\* Specification
\* ---------------------------------------------------------------------

Next ==
    \/ run_research_sync_begin
    \/ script_run_begin
    \/ _generate_query_begin
    \/ _generate_query
    \/ _web_research_begin
    \/ _web_research
    \/ _summarize_sources_begin
    \/ _summarize_sources
    \/ _reflect_on_summary_begin
    \/ _reflect_on_summary
    \/ _finalize_summary_begin
    \/ _finalize_summary
    \/ run_research_return
    \/ run_research_except
    \/ run_research_sync_return
    \/ run_research_sync_except
    \/ stop_research

Spec == Init /\ [][Next]_vars

\* ---------------------------------------------------------------------
\* Progress estimation on its own: every state a caller can hand to
\* get_progress_percentage within the bounds
\* ---------------------------------------------------------------------

ProgressSteps == RESEARCH_STEPS \cup {"unknown_step"}

ProgressArgs ==
    { [ResearchState_default EXCEPT
          !.current_step = st, !.step_progress = sp,
          !.research_loop_count = lc, !.total_steps = ts] :
      st \in ProgressSteps, sp \in 0..10,
      lc \in 0..MaxLoopCount, ts \in 0..MaxTotalSteps }

ProgressInit ==
    /\ PipelineInit
    /\ fn \in { [call |-> "get_progress_percentage", arg |-> a,
                 done |-> FALSE, result |-> <<>>] : a \in ProgressArgs }

call_get_progress_percentage ==
    /\ fn.call = "get_progress_percentage"
    /\ ~fn.done
    /\ fn' = [fn EXCEPT !.done = TRUE,
                        !.result = get_progress_percentage(fn.arg)]
    /\ UNCHANGED pipeline_vars

ProgressNext == call_get_progress_percentage

ProgressSpec == ProgressInit /\ [][ProgressNext]_vars

\* ---------------------------------------------------------------------
\* The application with the scheduling of a run: run_research executes in
\* the caller's thread, so a run that has begun takes its next step (an
\* executor's first statement, the rest of an executor, or the end of
\* run_research) whenever every capability call returns or raises
\* ---------------------------------------------------------------------

run_step ==
    \/ _generate_query_begin
    \/ _generate_query
    \/ _web_research_begin
    \/ _web_research
    \/ _summarize_sources_begin
    \/ _summarize_sources
    \/ _reflect_on_summary_begin
    \/ _reflect_on_summary
    \/ _finalize_summary_begin
    \/ _finalize_summary
    \/ run_research_return
    \/ run_research_except

\* the first run of the application or of a script
first_run == runs = 0 /\ (run_research_sync_begin \/ script_run_begin)

RunNext ==
    \/ first_run
    \/ _generate_query_begin
    \/ _generate_query
    \/ _web_research_begin
    \/ _web_research
    \/ _summarize_sources_begin
    \/ _summarize_sources
    \/ _reflect_on_summary_begin
    \/ _reflect_on_summary
    \/ _finalize_summary_begin
    \/ _finalize_summary
    \/ run_research_return
    \/ run_research_except

RunSpec == Init /\ [][RunNext]_vars /\ WF_vars(run_step)

\* The estimate on the states a caller can hand to it and on the states
\* of the runs: either one call of get_progress_percentage on a drawn
\* state, or the application
EstimateInit == Init \/ ProgressInit

estimate_run == fn = NoCall /\ Next

EstimateNext ==
    \/ call_get_progress_percentage
    \/ estimate_run

EstimateSpec == EstimateInit /\ [][EstimateNext]_vars

\* ---------------------------------------------------------------------
\* The source deduplication of _finalize_summary on its own: every list
\* of strings within the bounds as state.sources_gathered
\* ---------------------------------------------------------------------

\* strings as sequences of lines: a bare URL, the same URL followed by a
\* line of text, two formatted texts and the empty string
DedupItems == {<<"http://a">>, <<"http://a", "x">>, <<"line1", "line2">>,
               <<"line1">>, <<"">>}

RECURSIVE SeqsUpTo(_, _)
SeqsUpTo(S, n) ==
    IF n = 0 THEN {<<>>}
    ELSE LET shorter == SeqsUpTo(S, n - 1)
         IN  shorter \cup {Append(q, x) : q \in shorter, x \in S}

DedupInit ==
    /\ PipelineInit
    /\ fn \in { [call |-> "unique_sources", arg |-> a,
                 done |-> FALSE, result |-> <<>>] :
                a \in SeqsUpTo(DedupItems, MaxSources) }

call_unique_sources ==
    /\ fn.call = "unique_sources"
    /\ ~fn.done
    /\ fn' = [fn EXCEPT !.done = TRUE, !.result = unique_sources(fn.arg)]
    /\ UNCHANGED pipeline_vars

DedupNext == call_unique_sources

DedupSpec == DedupInit /\ [][DedupNext]_vars

\* ---------------------------------------------------------------------
\* The store on its own: every sequence of calls of the public operations
\* of VectorStore on sessions within the bounds, each call with the
\* failures its storage and embedding calls can have
\* ---------------------------------------------------------------------

MaxIds == 2

\* a topic and a creation time: two sessions of one topic created one
\* after the other, and one of another topic as old as the older one
StoreShapes == {<<<<"T1">>, 1>>, <<<<"T1">>, 2>>, <<<<"T2">>, 1>>}

\* the first two ids come in every shape, the ids after them in one: a
\* session of the second topic as young as the younger one
ShapesOf(i) == IF i <= 2 THEN StoreShapes ELSE {<<<<"T2">>, 2>>}

StoreSessions ==
    UNION { { [id |-> i, topic |-> sh[1], summary |-> <<"S">>,
               sources |-> <<URL_A>>, created_at |-> sh[2],
               completed_at |-> sh[2], config |-> Dict({<<"k", "v">>}),
               embedding |-> None] : sh \in ShapesOf(i) } :
            i \in 1..MaxIds }

\* a query and a threshold: the text add_session embeds for a session of
\* topic T1, with a threshold that the other topic meets exactly and one
\* that both topics pass, and another text with a threshold between the
\* scores of the two topics
StoreSearches ==
    {<<<<"T1", "\n\n", "S">>, Frac(24, 25)>>,
     <<<<"T1", "\n\n", "S">>, Frac(7, 10)>>,
     <<<<"q">>, Frac(7, 10)>>}

\* the orders a SELECT can come back in, for a call that gets that far
Orders(ok) == IF ok THEN OrderByCreatedDesc(db) ELSE {db}

StoreIdle ==
    [call |-> "none", arg |-> <<>>, done |-> FALSE, result |-> <<>>,
     raised |-> FALSE, failed |-> FALSE, attempts |-> <<>>,
     before |-> <<>>, model_before |-> None]

\* a finished call of a store operation: what it was given, what it
\* returned, whether it raised, whether one of the calls it makes failed,
\* the models it tried to load, and the rows and the model it found
Called(name, arg, returned, raised, failed, attempts) ==
    [call |-> name, arg |-> arg, done |-> TRUE, result |-> returned,
     raised |-> raised, failed |-> failed, attempts |-> attempts,
     before |-> db, model_before |-> vs.model]

store_frame == <<config, progress_callback, pc, node, ch, ns, rs, app_rs,
                 exc, session_state, clock, uuids, runs, entered,
                 search_calls, searched, sync_result, cap_failed, cb_threw,
                 llm_calls, result,
                 reports>>

\* the outcomes _get_model can have for the store as it is
Loads == IF vs.model = None THEN LoadOutcomes ELSE {"ok"}

StoreInit ==
    /\ PipelineInit
    /\ fn = StoreIdle

\* vector_store.py:16-20 and 289-291: a new instance over the same
\* database; sqlite3.connect or CREATE TABLE may raise, and nothing
\* catches it
create_vector_store ==
    /\ \E init_ok \in BOOLEAN :
        /\ vs' = IF init_ok THEN VectorStore ELSE vs
        /\ fn' = Called("create_vector_store", <<>>, <<>>, ~init_ok,
                        ~init_ok, <<>>)
    /\ UNCHANGED <<db, store_frame>>

add_session_call ==
    /\ \E session \in StoreSessions, load \in Loads, embed_ok \in BOOLEAN :
        LET added == add_session(vs, db, session, load, embed_ok, TRUE)
        IN  /\ db' = added.rows
            /\ vs' = added.store
            /\ fn' = Called("add_session", session, added.result, FALSE,
                            ~added.result, added.attempts)
    /\ UNCHANGED store_frame

\* vector_store.py:104-131
get_session_call ==
    /\ \E session_id \in 1..MaxIds, storage_ok \in BOOLEAN :
        fn' = Called("get_session", session_id,
                     IF storage_ok THEN get_session(db, session_id)
                     ELSE None,
                     FALSE, ~storage_ok, <<>>)
    /\ UNCHANGED <<db, vs, store_frame>>

\* vector_store.py:133-161
get_recent_sessions_call ==
    /\ \E limit \in 0..MaxIds, storage_ok \in BOOLEAN :
        \E ordered \in Orders(storage_ok) :
        fn' = Called("get_recent_sessions", limit,
                     IF storage_ok THEN get_recent_sessions(ordered, limit)
                     ELSE <<>>,
                     FALSE, ~storage_ok, <<>>)
    /\ UNCHANGED <<db, vs, store_frame>>

\* vector_store.py:163-209; every stored row has an embedding, so the
\* WHERE clause keeps them all
search_similar_call ==
    /\ \E search \in StoreSearches, limit \in 0..MaxIds, load \in Loads,
          storage_ok \in BOOLEAN :
        \E ordered \in Orders(storage_ok) :
        LET query == search[1]
            threshold == search[2]
            got == _get_model(vs, load)
            failed == got.raised \/ ~storage_ok
        IN  /\ vs' = got.store
            /\ fn' = Called("search_similar",
                            [query |-> query, limit |-> limit,
                             threshold |-> threshold],
                            IF failed THEN <<>>
                            ELSE search_similar(ordered, query, limit,
                                                threshold),
                            FALSE, failed, got.attempts)
    /\ UNCHANGED <<db, store_frame>>

\* vector_store.py:211-222
delete_session_call ==
    /\ \E session_id \in 1..MaxIds, storage_ok \in BOOLEAN :
        LET deleted == delete_session(db, session_id)
        IN  /\ db' = IF storage_ok THEN deleted.rows ELSE db
            /\ fn' = Called("delete_session", session_id,
                            storage_ok /\ deleted.result,
                            FALSE, ~storage_ok, <<>>)
    /\ UNCHANGED <<vs, store_frame>>

\* vector_store.py:224-255
get_stats_call ==
    /\ \E recent \in 0..Len(db), storage_ok \in BOOLEAN :
        fn' = Called("get_stats", <<>>,
                     IF storage_ok THEN get_stats(db, recent)
                     ELSE Dict({}),
                     FALSE, ~storage_ok, <<>>)
    /\ UNCHANGED <<db, vs, store_frame>>

\* vector_store.py:257-287: the DELETE is committed at line 277, and the
\* count that follows it may still fail
cleanup_old_sessions_call ==
    /\ \E keep_recent \in 0..MaxIds,
          outcome \in {"ok", "fails", "fails_after_commit"} :
        \E ordered \in Orders(outcome # "fails") :
        LET kept == cleanup_old_sessions(db, ordered, keep_recent)
        IN  /\ db' = IF outcome = "fails" THEN db ELSE kept
            /\ fn' = Called("cleanup_old_sessions", keep_recent,
                            IF outcome = "ok" THEN Len(db) - Len(kept)
                            ELSE 0,
                            FALSE, outcome # "ok", <<>>)
    /\ UNCHANGED <<vs, store_frame>>

StoreNext ==
    \/ create_vector_store
    \/ add_session_call
    \/ get_session_call
    \/ get_recent_sessions_call
    \/ search_similar_call
    \/ delete_session_call
    \/ get_stats_call
    \/ cleanup_old_sessions_call

StoreSpec == StoreInit /\ [][StoreNext]_vars

\* ---------------------------------------------------------------------
\* The round trip of one session through an empty store: add_session,
\* then get_session of its id, for every session within the bounds
\* ---------------------------------------------------------------------

\* sessions with and without sources, completion time, config and
\* embedding; the config may be the empty dict
RoundTripSessions ==
    { [id |-> i, topic |-> t, summary |-> <<"S">>, sources |-> src,
       created_at |-> 1, completed_at |-> done_at, config |-> cf,
       embedding |-> e] :
      i \in 1..MaxIds, t \in {<<"T1">>, <<"T2">>},
      src \in {<<>>, <<URL_A, URL_B>>}, done_at \in {NoTime, 2},
      cf \in {None, Dict({}), Dict({<<"k", "v">>})},
      e \in {None, <<3, 4>>} }

RoundTripInit ==
    /\ PipelineInit
    /\ fn \in { [call |-> "round_trip", arg |-> session, step |-> "given",
                 done |-> FALSE, result |-> <<>>] :
                session \in RoundTripSessions }

\* vector_store.py:71-102, with the embedding and storage calls succeeding
round_trip_add ==
    /\ fn.call = "round_trip"
    /\ fn.step = "given"
    /\ \E load \in {"ok", "fallback"} :
        LET added == add_session(vs, db, fn.arg, load, TRUE, TRUE)
        IN  /\ db' = added.rows
            /\ vs' = added.store
            /\ fn' = [fn EXCEPT !.step = "added"]
    /\ UNCHANGED store_frame

\* vector_store.py:104-131
round_trip_get ==
    /\ fn.call = "round_trip"
    /\ fn.step = "added"
    /\ fn' = [fn EXCEPT !.step = "got", !.done = TRUE,
                        !.result = get_session(db, fn.arg.id)]
    /\ UNCHANGED <<db, vs, store_frame>>

RoundTripNext ==
    \/ round_trip_add
    \/ round_trip_get

RoundTripSpec == RoundTripInit /\ [][RoundTripNext]_vars

\* ---------------------------------------------------------------------
\* Properties
\* ---------------------------------------------------------------------

RECURSIVE Count(_, _)
Count(seq, x) ==
    IF seq = <<>> THEN 0
    ELSE (IF Head(seq) = x THEN 1 ELSE 0) + Count(Tail(seq), x)

max_loops == config.max_web_research_loops
ForAllStateObjects(P(_)) == P(ns) /\ P(rs) /\ P(app_rs)

C2_ReturnedLoopCount ==
    pc = "returned" => rs.research_loop_count = max_loops + 1

\* C3: the executors are entered in the order generate_query (once,
\* first), then repetitions of web_research, summarize_sources,
\* reflect_on_summary, then finalize_summary, then completed; the only
\* branch is after reflect_on_summary.
C3_Successors(step) ==
    CASE step = "generate_query" -> {"web_research"}
      [] step = "web_research" -> {"summarize_sources"}
      [] step = "summarize_sources" -> {"reflect_on_summary"}
      [] step = "reflect_on_summary" -> {"web_research", "finalize_summary"}
      [] step = "finalize_summary" -> {}

C3_StepOrder ==
    /\ entered # <<>> => entered[1] = "generate_query"
    /\ \A i \in 2..Len(entered) :
            /\ entered[i] # "generate_query"
            /\ entered[i] \in C3_Successors(entered[i-1])
    /\ pc \in {"invoke_returned", "returned"} =>
            /\ Len(entered) >= 5
            /\ entered[Len(entered)] = "finalize_summary"
    /\ pc = "returned" => rs.current_step = "completed"
    /\ pc \in {"enter", "try"} /\ entered # <<>> =>
            node \in (IF pc = "try" THEN {entered[Len(entered)]}
                      ELSE C3_Successors(entered[Len(entered)]))

C3_Witness ==
    /\ pc = "returned"
    /\ Count(entered, "reflect_on_summary") = 3
    /\ entered[Len(entered)] = "finalize_summary"

\* C4: the step that follows reflect_on_summary is web_research exactly
\* when loop_count <= max_loops, and finalize_summary otherwise.
C4_Routing ==
    [][(pc = "try" /\ node = "reflect_on_summary" /\ pc' = "enter") =>
          /\ node' \in {"web_research", "finalize_summary"}
          /\ node' = "web_research" <=>
                ch'.research_loop_count <= max_loops]_vars

C4_Witness ==
    /\ pc = "enter"
    /\ node = "finalize_summary"
    /\ Count(entered, "web_research") >= 2
    /\ ch.research_loop_count = max_loops + 1

\* C5: once a generation or search call has raised, the executor's state
\* and then run_research's state are marked error with a message, the
\* exception leaves run_research (it never returns), and no further
\* executor is entered.
C5_Failed ==
    cap_failed =>
        /\ pc \in {"invoke_raised", "raised", "sync_done"}
        /\ ns.current_step = "error" /\ ns.error_message # None
        /\ pc = "invoke_raised" => exc # None
        /\ pc = "raised" =>
                /\ exc # None
                /\ rs.current_step = "error"
                /\ rs.error_message = exc
        /\ pc = "sync_done" =>
                /\ session_state.research_error # None
                /\ rs.current_step = "error"

C5_ErrorPropagation ==
    /\ []C5_Failed
    /\ [][(cap_failed /\ cap_failed') => entered' = entered]_vars

C5_Witness ==
    /\ cap_failed
    /\ pc = "raised"
    /\ Count(entered, "web_research") = 2
    /\ rs.current_step = "error"

\* C6: a callback invocation that throws never aborts the run: without a
\* capability failure no exception leaves the executors and no state is
\* marked error.
C6_CallbackErrorContained ==
    (cb_threw /\ ~cap_failed) =>
        /\ pc \notin {"invoke_raised", "raised"}
        /\ ns.current_step # "error"
        /\ rs.current_step # "error"

\* C7: run_research works on a fresh state with a new session id and a
\* start timestamp; it either returns that state completed, with
\* completed_at set and running_summary the finalized report, or raises
\* with that state marked error.
C7_Running == pc \in {"enter", "try", "invoke_returned", "invoke_raised"}

C7_RunOutcomes ==
    /\ (C7_Running \/ pc \in {"returned", "raised"}) =>
            /\ rs.session_id = uuids
            /\ rs.session_id \notin StoredIds(db)
            /\ rs.session_id # app_rs.session_id
            /\ rs.started_at # NoTime
            /\ rs.started_at >= app_rs.started_at
    /\ C7_Running =>
            /\ rs.current_step = "idle"
            /\ rs.completed_at = NoTime
            /\ rs.error_message = None
    /\ pc = "returned" =>
            /\ rs.current_step = "completed"
            /\ rs.completed_at # NoTime
            /\ rs.running_summary =
                 final_summary(ns.running_summary,
                               unique_sources(ns.sources_gathered))
    /\ pc = "raised" =>
            /\ rs.current_step = "error"
            /\ rs.error_message # None

C7_Witness ==
    /\ pc = "returned"
    /\ runs = 2
    /\ rs.current_step = "completed"
    /\ Len(rs.running_summary) > 2

\* C8: in every state object, current_step = completed implies
\* step_progress = 1.0 and completed_at set.
C8_Completed(s) ==
    s.current_step = "completed" =>
        s.step_progress = 10 /\ s.completed_at # NoTime

C8_CompletedInvariant == ForAllStateObjects(C8_Completed)

C8_Witness ==
    /\ ns.current_step = "completed"
    /\ rs.current_step = "completed"

\* C9: in every state object, current_step = error implies error_message
\* is set.
C9_Error(s) == s.current_step = "error" => s.error_message # None

C9_ErrorInvariant == ForAllStateObjects(C9_Error)

C9_Witness ==
    /\ pc = "sync_done"
    /\ ns.current_step = "error"
    /\ rs.current_step = "error"
    /\ app_rs.current_step = "error"

\* C10: loop_count never exceeds max_loops + 1 and never decreases during
\* a run.
C10_Within(s) == s.research_loop_count <= max_loops + 1

C10_Bounded ==
    /\ C10_Within(ch)
    /\ entered # <<>> => ForAllStateObjects(C10_Within)

C10_LoopCount ==
    /\ []C10_Bounded
    /\ [][runs' = runs =>
            /\ ch'.research_loop_count >= ch.research_loop_count
            /\ entered # <<>> =>
                    ns'.research_loop_count >= ns.research_loop_count]_vars

C10_Witness ==
    /\ max_loops = 2
    /\ ch.research_loop_count = 3
    /\ ns.research_loop_count = 3

\* ---------------------------------------------------------------------
\* Properties of the progress estimate (ProgressSpec)
\* ---------------------------------------------------------------------

ProgressCalled == fn.call = "get_progress_percentage" /\ fn.done

\* C11: get_progress_percentage returns exactly 100.0 when current_step is
\* completed and exactly 0.0 when it is idle, whatever step_progress,
\* research_loop_count and total_steps are.
C11_Endpoints ==
    ProgressCalled =>
        /\ fn.arg.current_step = "completed" => fn.result = Frac(100, 1)
        /\ fn.arg.current_step = "idle" => fn.result = Frac(0, 1)

C11_Witness ==
    /\ ProgressCalled
    /\ fn.arg.current_step = "idle"
    /\ fn.arg.step_progress = 7
    /\ fn.arg.research_loop_count = 3
    /\ fn.result = Frac(0, 1)

\* the weights of the steps before each step of the order, and its own weight
C12_Earlier == [generate_query |-> 0, summarize_sources |-> 50,
                reflect_on_summary |-> 75, finalize_summary |-> 90]
C12_Weight == [generate_query |-> 10, summarize_sources |-> 25,
               reflect_on_summary |-> 15, finalize_summary |-> 10]

\* C12: for generate_query, summarize_sources, reflect_on_summary and
\* finalize_summary with step_progress in [0,1] the estimate is the sum of
\* the weights of the earlier steps plus weight(current_step) *
\* step_progress, whatever research_loop_count and total_steps are.
C12_WeightedSum ==
    (ProgressCalled /\ fn.arg.current_step \in DOMAIN C12_Earlier) =>
        FEq(fn.result,
            FAdd(Frac(C12_Earlier[fn.arg.current_step], 1),
                 Frac(C12_Weight[fn.arg.current_step] * fn.arg.step_progress,
                      10)))

C12_Witness ==
    /\ ProgressCalled
    /\ fn.arg.current_step = "reflect_on_summary"
    /\ fn.arg.step_progress = 5
    /\ fn.arg.research_loop_count = 1
    /\ fn.arg.total_steps = 3
    /\ FEq(fn.result, Frac(165, 2))

\* C13: while current_step is web_research the estimate is
\* 10 + 40 * min(1, research_loop_count / max(1, total_steps)) and does not
\* depend on step_progress.
C13_LoopFactorOnly ==
    (ProgressCalled /\ fn.arg.current_step = "web_research") =>
        LET lc == fn.arg.research_loop_count
            ts == IF fn.arg.total_steps >= 1 THEN fn.arg.total_steps ELSE 1
            factor == IF lc >= ts THEN Frac(1, 1) ELSE Frac(lc, ts)
        IN FEq(fn.result, FAdd(Frac(10, 1), FMul(Frac(40, 1), factor)))

\* C15: a current_step outside the five steps of the order that is neither
\* idle nor completed (error, for one) gives 100.0.
C15_UnknownStep ==
    (ProgressCalled
        /\ fn.arg.current_step \notin Executors \cup {"idle", "completed"}) =>
        fn.result = Frac(100, 1)

C15_Witness ==
    /\ ProgressCalled
    /\ fn.arg.current_step = "error"
    /\ fn.arg.step_progress = 0
    /\ fn.result = Frac(100, 1)

\* ---------------------------------------------------------------------
\* Properties of the source deduplication (DedupSpec)
\* ---------------------------------------------------------------------

DedupCalled == fn.call = "unique_sources" /\ fn.done

\* the reference policy: an item that starts with a URL scheme is kept
\* whole if not yet seen; any other item is split on newlines and each
\* non-empty, not-yet-seen line is kept
RECURSIVE C16_KeepLines(_, _)
C16_KeepLines(lines, kept) ==
    IF lines = <<>> THEN kept
    ELSE C16_KeepLines(Tail(lines),
            IF NonBlank(Head(lines))
               /\ \A i \in 1..Len(kept) : kept[i] # <<Head(lines)>>
            THEN Append(kept, <<Head(lines)>>)
            ELSE kept)

RECURSIVE C16_Reference(_, _)
C16_Reference(sources, kept) ==
    IF sources = <<>> THEN kept
    ELSE C16_Reference(Tail(sources),
            IF Head(sources)[1] \in HttpLines
            THEN IF \A i \in 1..Len(kept) : kept[i] # Head(sources)
                 THEN Append(kept, Head(sources))
                 ELSE kept
            ELSE C16_KeepLines(Head(sources), kept))

\* C16: the deduplication of finalize_summary equals the reference policy
\* for every list of strings; the output keeps first-seen order and holds
\* no element twice; ["http://a", "http://a", "line1\nline2", "line1"]
\* gives exactly ["http://a", "line1", "line2"].
C16_DedupIsReference ==
    DedupCalled =>
        /\ fn.result = C16_Reference(fn.arg, <<>>)
        /\ \A i, j \in 1..Len(fn.result) :
                fn.result[i] = fn.result[j] => i = j
        /\ fn.arg = <<<<"http://a">>, <<"http://a">>,
                      <<"line1", "line2">>, <<"line1">>>>
            => fn.result = <<<<"http://a">>, <<"line1">>, <<"line2">>>>

\* ---------------------------------------------------------------------
\* Properties of the replies, the capability calls and the reports (Spec)
\* ---------------------------------------------------------------------

\* the executor entered last has its reply and no callback has thrown
Replied(name) ==
    /\ entered # <<>>
    /\ entered[Len(entered)] = name
    /\ result # NoResult
    /\ ~cb_threw

\* C14: over the states reported to the observer during one run the
\* estimate never decreases from one report to the next, except where one
\* of the two reported states has current_step web_research.
C14_Monotone ==
    \A i \in 1..(Len(reports) - 1) :
        \/ FLe(reports[i].pct, reports[i + 1].pct)
        \/ reports[i].step = "web_research"
        \/ reports[i + 1].step = "web_research"

C14_Witness ==
    /\ reports # <<>>
    /\ reports[Len(reports)].step = "completed"
    /\ \E i \in 1..(Len(reports) - 1) :
            /\ FLt(reports[i + 1].pct, reports[i].pct)
            /\ reports[i].step = "web_research"
            /\ reports[i + 1].step = "summarize_sources"

\* C17: whatever reply generate_query gets that is not the expected object
\* (invalid JSON, an object without the query key, valid JSON that is not
\* an object), it does not raise: the run goes on to web_research with the
\* fallback text as search_query.
C17_MalformedQueryRecovered ==
    (Replied("generate_query")
        /\ ~(result.json = "object" /\ "query" \in result.keys)) =>
        /\ pc = "enter"
        /\ node = "web_research"
        /\ exc = None
        /\ ch.search_query # None
        /\ ~config.strip_thinking_tokens => ch.search_query = result.text

\* C18: whatever reply reflect_on_summary gets, it does not fail; without a
\* non-empty follow_up_query (invalid JSON, JSON that is not an object, no
\* such key, null or empty) search_query becomes the generic follow-up for
\* the topic, and with one it becomes exactly that value.
C18_ReflectionRecovered ==
    Replied("reflect_on_summary") =>
        /\ pc = "enter"
        /\ exc = None
        /\ ch.search_query =
            IF /\ result.json = "object"
               /\ "follow_up_query" \in result.keys
               /\ result.fields.follow_up_query \notin {None, <<"">>}
            THEN result.fields.follow_up_query
            ELSE <<"Tell me more about ">> \o ch.research_topic

C18_Witness ==
    /\ Replied("reflect_on_summary")
    /\ result.json = "other"
    /\ pc = "enter"
    /\ ch.search_query = <<"Tell me more about ", "climate">>

C19_Once ==
    /\ llm_calls <= Count(entered, "generate_query")
                    + Count(entered, "summarize_sources")
                    + Count(entered, "reflect_on_summary")
    /\ search_calls <= Count(entered, "web_research")

C19_Fatal ==
    cap_failed =>
        /\ pc \in {"invoke_raised", "raised", "sync_done"}
        /\ pc = "raised" => rs.current_step = "error"

\* C19: no capability call is retried: an execution of a step calls its
\* capability at most once, and after the first capability failure of a
\* run no further capability call is made and the run ends in error.
C19_NoRetry ==
    /\ [](C19_Once /\ C19_Fatal)
    /\ [][(cap_failed /\ cap_failed') =>
            (llm_calls' = llm_calls /\ search_calls' = search_calls)]_vars

C19_Witness ==
    /\ cap_failed
    /\ pc = "raised"
    /\ rs.current_step = "error"
    /\ entered = <<"generate_query", "web_research", "summarize_sources">>
    /\ llm_calls = 2
    /\ search_calls = 1

\* C20: an invalid search backend is raised at the start of the run,
\* before any executor calls a capability: no generate_text call is made
\* in that run.
C20_InvalidBackendFirst ==
    config.search_api \notin SearchAPIs => llm_calls = 0

\* C21: the store changes only in the step that follows a return of
\* run_research with current_step = completed, that step adds the one
\* record of the run, and so the store never holds more records than there
\* were runs; a run that raised, at whatever step, leaves the store as it
\* was.
C21_PersistOnlyCompleted ==
    /\ [](Len(db) <= runs)
    /\ [][db' # db =>
            /\ pc = "returned"
            /\ pc' = "sync_done"
            /\ rs.current_step = "completed"
            /\ db' = Append(db, SessionRow(ResearchSession(rs)))]_vars
    /\ [][pc = "raised" => db' = db]_vars

\* the first run was stored, the second one failed after a whole pass of
\* the loop and is not in the store
C21_Witness ==
    /\ pc = "sync_done"
    /\ runs = 2
    /\ Len(db) = 1
    /\ ns.research_loop_count >= 1
    /\ session_state.research_error # None
    /\ uuids \notin StoredIds(db)

\* a call of the store operation name has returned or raised
StoreCalled(name) == fn.call = name /\ fn.done

\* C22: the store never holds two records of one id, and an add of a
\* session whose id was stored replaces that record: the number of records
\* stays what it was and get(id) returns the fields just added.
C22_AddReplaces ==
    /\ \A i, j \in 1..Len(db) : db[i].id = db[j].id => i = j
    /\ (StoreCalled("add_session") /\ fn.result
            /\ fn.arg.id \in StoredIds(fn.before)) =>
            /\ Len(db) = Len(fn.before)
            /\ get_session(db, fn.arg.id) = fn.arg

\* a session was added over a stored one of its id with other fields,
\* next to a record of another id
C22_Witness ==
    /\ StoreCalled("add_session")
    /\ fn.result
    /\ Len(fn.before) = 2
    /\ fn.arg.id \in StoredIds(fn.before)
    /\ get_session(fn.before, fn.arg.id) # fn.arg

\* the cosine similarity of a query to the text a stored row was embedded
\* from
ScoreOf(row, query) ==
    cosine_similarity(encode(query),
                      encode(row.topic \o <<"\n\n">> \o row.summary))

\* the rows of the store that score at or over the threshold
Qualifying(query, threshold) ==
    {i \in 1..Len(db) : FLe(threshold, ScoreOf(db[i], query))}

\* C23: a search_similar that did not fail returns stored sessions, each
\* once and with its cosine similarity to the query, all at or over the
\* threshold, in non-increasing order of score, as many as the limit
\* allows, and no session left out scores strictly higher than one
\* returned.
C23_SearchExact ==
    (StoreCalled("search_similar") /\ ~fn.failed) =>
        LET res == fn.result
            query == fn.arg.query
            qual == Qualifying(query, fn.arg.threshold)
            returned == {res[k].session.id : k \in 1..Len(res)}
        IN  /\ Len(res) <= fn.arg.limit
            /\ Len(res) = IF Cardinality(qual) < fn.arg.limit
                          THEN Cardinality(qual) ELSE fn.arg.limit
            /\ \A k \in 1..Len(res) :
                  /\ FLe(fn.arg.threshold, res[k].score)
                  /\ \E i \in qual :
                        /\ res[k].session = get_session(db, db[i].id)
                        /\ FEq(res[k].score, ScoreOf(db[i], query))
            /\ \A k, l \in 1..Len(res) :
                  /\ k < l => FLe(res[l].score, res[k].score)
                  /\ k # l => res[k].session.id # res[l].session.id
            /\ \A i \in qual : db[i].id \notin returned =>
                  \A k \in 1..Len(res) :
                     ~FLt(res[k].score, ScoreOf(db[i], query))

\* a search over two sessions of different scores, both over the
\* threshold, cut to the better one by the limit
C23_Witness ==
    /\ StoreCalled("search_similar")
    /\ ~fn.failed
    /\ fn.arg.limit = 1
    /\ Len(fn.result) = 1
    /\ Cardinality(Qualifying(fn.arg.query, fn.arg.threshold)) = 2
    /\ \E i \in 1..Len(db) :
          FLt(ScoreOf(db[i], fn.arg.query), fn.result[1].score)

\* the place of a stored id in the order the rows were inserted in
InsertedAt(id) == CHOOSE i \in 1..Len(db) : db[i].id = id

\* C24: in the result of search_similar, of two sessions with equal scores
\* the one added to the store earlier comes first.
C24_TiesInInsertionOrder ==
    (StoreCalled("search_similar") /\ ~fn.failed) =>
        \A k, l \in 1..Len(fn.result) :
            (k < l /\ FEq(fn.result[k].score, fn.result[l].score)) =>
                InsertedAt(fn.result[k].session.id)
                    < InsertedAt(fn.result[l].session.id)

\* the set of the rows of a table
RowsOf(rows) == {rows[i] : i \in 1..Len(rows)}

\* C25: a cleanup(keep_recent = k) that did not fail, on a store of N
\* sessions: if N > k it leaves k of the rows it found, none of them
\* created before a row it removed, and returns N - k; if N <= k it
\* leaves the store as it was and returns 0.
C25_CleanupKeepsRecent ==
    (StoreCalled("cleanup_old_sessions") /\ ~fn.failed) =>
        LET N == Len(fn.before)
            k == fn.arg
            kept == RowsOf(db)
            removed == RowsOf(fn.before) \ RowsOf(db)
        IN  IF N > k
            THEN /\ Len(db) = k
                 /\ Cardinality(kept) = k
                 /\ kept \subseteq RowsOf(fn.before)
                 /\ fn.result = N - k
                 /\ \A r \in kept : \A o \in removed :
                        fromisoformat(r.created_at)
                            >= fromisoformat(o.created_at)
            ELSE /\ db = fn.before
                 /\ fn.result = 0

\* a cleanup that kept the younger of two sessions, which had been added
\* first, and removed the older one
C25_Witness ==
    /\ StoreCalled("cleanup_old_sessions")
    /\ ~fn.failed
    /\ fn.arg = 1
    /\ fn.result = 1
    /\ Len(fn.before) = 2
    /\ db = <<fn.before[1]>>
    /\ fromisoformat(fn.before[1].created_at)
          > fromisoformat(fn.before[2].created_at)

\* C27: a get_recent_sessions(limit) that did not fail returns stored
\* sessions, each once, as many as the limit allows, in non-increasing
\* order of creation time, and no session left out was created later than
\* one returned.
C27_RecentSessions ==
    (StoreCalled("get_recent_sessions") /\ ~fn.failed) =>
        LET res == fn.result
            returned == {res[k].id : k \in 1..Len(res)}
        IN  /\ Len(res) <= fn.arg
            /\ Len(res) = IF Len(db) < fn.arg THEN Len(db) ELSE fn.arg
            /\ \A k \in 1..Len(res) : res[k] = get_session(db, res[k].id)
            /\ \A k, l \in 1..Len(res) :
                  /\ k < l => res[k].created_at >= res[l].created_at
                  /\ k # l => res[k].id # res[l].id
            /\ \A i \in 1..Len(db) : db[i].id \notin returned =>
                  \A k \in 1..Len(res) :
                     fromisoformat(db[i].created_at) <= res[k].created_at

\* the one most recent of two sessions was listed, and it was the one
\* added first
C27_Witness ==
    /\ StoreCalled("get_recent_sessions")
    /\ ~fn.failed
    /\ fn.arg = 1
    /\ Len(db) = 2
    /\ Len(fn.result) = 1
    /\ fn.result[1].id = db[1].id
    /\ fn.result[1].created_at > fromisoformat(db[2].created_at)

\* C26: for every session s, get(s.id) after add(s) is a session equal to
\* s in every field: id, topic, summary, sources, created_at, completed_at,
\* config and embedding.
C26_RoundTrip ==
    (fn.call = "round_trip" /\ fn.done) => fn.result = fn.arg

\* what each store operation returns when it degrades
EmptyResult ==
    [create_vector_store |-> <<>>, add_session |-> FALSE,
     get_session |-> None, get_recent_sessions |-> <<>>,
     search_similar |-> <<>>, delete_session |-> FALSE,
     get_stats |-> Dict({}), cleanup_old_sessions |-> 0]

\* C28: a store operation, the initialisation included, whose storage or
\* embedding call failed has not raised, has returned its empty result,
\* and has left the stored sessions as they were.
C28_FailuresContained ==
    (fn.done /\ fn.call \in DOMAIN EmptyResult /\ fn.failed) =>
        /\ ~fn.raised
        /\ fn.result = EmptyResult[fn.call]
        /\ db = fn.before

\* the operations that embed a text
EmbeddingCalls == {"add_session", "search_similar"}

\* C29: a store instance starts without a model, and only add_session and
\* search_similar give it one; such a call on an instance without a model
\* tries the configured model first and, when that load fails, the default
\* model, and a call that succeeds leaves the model it loaded last on the
\* instance; on an instance that has a model it loads nothing and leaves
\* the model in place.
C29_LazyModel ==
    /\ fn.call = "none" => vs.model = None
    /\ (StoreCalled("create_vector_store") /\ ~fn.raised) =>
            vs.model = None /\ fn.attempts = <<>>
    /\ (fn.done /\ fn.call \notin EmbeddingCalls \cup {"create_vector_store"}) =>
            vs.model = fn.model_before /\ fn.attempts = <<>>
    /\ (fn.done /\ fn.call \in EmbeddingCalls /\ fn.model_before # None) =>
            vs.model = fn.model_before /\ fn.attempts = <<>>
    /\ (fn.done /\ fn.call \in EmbeddingCalls /\ fn.model_before = None) =>
            /\ fn.attempts \in {<<ConfiguredModel>>,
                                <<ConfiguredModel, DefaultModel>>}
            /\ ~fn.failed => vs.model = fn.attempts[Len(fn.attempts)]

\* a search on an instance that had fallen back to the default model
\* found a session without loading anything
C29_Witness ==
    /\ StoreCalled("search_similar")
    /\ ~fn.failed
    /\ fn.model_before = DefaultModel
    /\ vs.model = DefaultModel
    /\ fn.attempts = <<>>
    /\ Len(fn.result) >= 1

\* C30: every record the store held before an operation is still there
\* with the same field values after it, unless the operation was
\* cleanup(keep_recent).
C30_ImmutableUntilCleanup ==
    fn.done =>
        \A r \in RowsOf(fn.before) :
            r \notin RowsOf(db) => fn.call = "cleanup_old_sessions"

\* C30, amended: a record the store held before an operation is gone or
\* changed after it only if the operation was cleanup(keep_recent) or
\* delete_session of its id, after which no record of that id is stored,
\* or a successful add_session of a session of its id, after which the
\* record of that id holds the added fields; get_session,
\* get_recent_sessions, search_similar and get_stats leave every record as
\* it was.
C30_ChangedOnlyByAddDeleteCleanup ==
    fn.done =>
        \A r \in RowsOf(fn.before) :
            r \notin RowsOf(db) =>
                \/ /\ fn.call = "cleanup_old_sessions"
                   /\ r.id \notin StoredIds(db)
                \/ /\ fn.call = "delete_session"
                   /\ fn.arg = r.id
                   /\ fn.result
                   /\ r.id \notin StoredIds(db)
                \/ /\ fn.call = "add_session"
                   /\ fn.arg.id = r.id
                   /\ fn.result
                   /\ get_session(db, r.id) = fn.arg

\* delete_session removed one of two records and left the other
C30_Witness ==
    /\ StoreCalled("delete_session")
    /\ fn.result
    /\ Len(fn.before) = 2
    /\ Len(db) = 1
    /\ fn.arg \notin StoredIds(db)
    /\ RowsOf(db) \subseteq RowsOf(fn.before)

\* a callback is registered
Observed == progress_callback # "none"

\* the last state the callback was handed
LastReport == reports[Len(reports)]

\* C31: every step of an executor that writes its state hands that state
\* to the registered callback before the executor returns or raises; when
\* run_research has returned, the last state the callback was handed has
\* current_step = completed, and when it has raised, current_step = error.
C31_CallbackSeesEveryMutation ==
    /\ [][(Observed /\ pc \in {"enter", "try"} /\ pc' # pc) =>
            /\ Len(reports') > Len(reports)
            /\ reports'[Len(reports')] =
                  [step |-> ns'.current_step,
                   pct |-> get_progress_percentage(ns')]]_vars
    /\ [](Observed /\ pc = "returned" =>
            reports # <<>> /\ LastReport.step = "completed")
    /\ [](Observed /\ pc = "raised" =>
            reports # <<>> /\ LastReport.step = "error")

\* C32: when run_research has returned, the sources_gathered of the state
\* it returned is the concatenation, in pass order, of the url lists the
\* web_research passes of the run returned, which is what the channel of
\* the graph holds.
C32_ReturnedSources ==
    pc = "returned" => rs.sources_gathered = ch.sources_gathered

\* a state whose current_step is terminal
Terminal(s) == s.current_step \in {"completed", "error"}

\* the step leaves every state object in place: no executor is handed a
\* fresh state and no run begins
SameObjects == runs' = runs /\ (pc # "enter" \/ pc' = pc)

\* C33: once the current_step of a state object is completed or error, no
\* later operation on that object changes it: not between two steps, for
\* the executor's object, the object run_research returns and the object
\* of the caller, and not inside a step, where what the callback is handed
\* after a terminal state is the same terminal state.
C33_TerminalAbsorbing ==
    /\ [][SameObjects =>
            /\ Terminal(ns) => ns'.current_step = ns.current_step
            /\ Terminal(rs) => rs'.current_step = rs.current_step
            /\ Terminal(app_rs) => app_rs'.current_step = app_rs.current_step]_vars
    /\ [](\A i \in 1..Len(reports) - 1 :
            reports[i].step \in {"completed", "error"} =>
                reports[i + 1].step = reports[i].step)

\* C34: in the pipeline state the number of entries of web_research_results
\* is research_loop_count, the k-th entry being the text of the k-th search
\* of the run; between two steps both equal the number of web_research
\* steps of the run; and summarize_sources is entered with at least one
\* entry, the last one being the text of the search made just before.
C34_OneBlobPerLoop ==
    /\ Len(ch.web_research_results) = ch.research_loop_count
    /\ \A k \in 1..Len(ch.web_research_results) :
            ch.web_research_results[k] = search_str(k)
    /\ pc \in {"enter", "invoke_returned"} =>
            ch.research_loop_count = Count(entered, "web_research")
    /\ node = "summarize_sources" /\ pc \in {"enter", "try"} =>
            /\ ch.web_research_results # <<>>
            /\ ch.web_research_results[Len(ch.web_research_results)]
                    = search_str(search_calls)
    /\ node = "summarize_sources" /\ pc = "try" =>
            /\ ns.web_research_results = ch.web_research_results
            /\ entered[Len(entered) - 1] = "web_research"

C34_Witness ==
    /\ node = "summarize_sources"
    /\ pc = "try"
    /\ ns.research_loop_count = 2
    /\ ns.web_research_results = <<search_str(1), search_str(2)>>

\* the fields of the state a failing step may write
ErrorFields == {"current_step", "error_message", "step_progress",
                "step_details"}

\* the pipeline data of the state
DataFields == {"research_loop_count", "web_research_results",
               "sources_gathered", "search_query", "running_summary"}

\* C35: when a web_research step fails, the pipeline state is unchanged,
\* the executor's state holds in research_loop_count, web_research_results,
\* sources_gathered, search_query and running_summary the values from
\* before the step, and when the failure is in the try block nothing but
\* current_step, error_message, step_progress and step_details of that
\* state changes.
C35_FailedSearchFrame ==
    [][(node = "web_research" /\ pc \in {"enter", "try"}
            /\ pc' = "invoke_raised") =>
        /\ ch' = ch
        /\ \A f \in DataFields : ns'[f] = ch[f]
        /\ pc = "try" =>
                \A f \in DOMAIN ns \ ErrorFields : ns'[f] = ns[f]
        /\ ns'.current_step = "error" \/ cb_threw']_vars

\* a search has failed in the second pass of a run
C35_Witness ==
    /\ node = "web_research"
    /\ pc = "invoke_raised"
    /\ cap_failed
    /\ ~cb_threw
    /\ ns.current_step = "error"
    /\ ns.research_loop_count = 1
    /\ ns.running_summary # None
    /\ ns.sources_gathered # <<>>

\* the query made of the reply of the executor that has just returned:
\* the search_query of generate_query, the follow-up of reflect_on_summary
Produced ==
    IF entered[Len(entered)] = "generate_query"
    THEN parse_query(result, config).search_query
    ELSE parse_reflection(result, ch.research_topic).follow_up_query

\* C36: when web_research is about to be entered, the executor that has
\* just returned is generate_query in the first pass and
\* reflect_on_summary in every later pass, and the pipeline's search_query
\* is the query that executor produced; entering web_research leaves the
\* pipeline state alone, and the query the search is passed is the
\* pipeline's search_query.
C36_SearchUsesLatestQuery ==
    /\ [](pc = "enter" /\ node = "web_research" =>
            /\ entered[Len(entered)] =
                    (IF ch.research_loop_count = 0 THEN "generate_query"
                     ELSE "reflect_on_summary")
            /\ ch.search_query = Produced)
    /\ [][(node = "web_research" /\ pc = "enter" /\ pc' # pc) =>
                ch' = ch]_vars
    /\ [][(node = "web_research" /\ search_calls' = search_calls + 1) =>
                searched' = ch.search_query]_vars

\* the third search of a run has been passed the generic follow-up that
\* replaced an unusable reflection reply, after an earlier follow-up F1
C36_Witness ==
    /\ node = "summarize_sources"
    /\ pc = "enter"
    /\ search_calls = 3
    /\ searched = generic_follow_up(ch.research_topic)
    /\ searched = ch.search_query

\* the keys of the step_details of a state
Keys(s) == DOMAIN s.step_details

\* C37: within a run no key leaves step_details: from one progress update
\* to the next the state handed to the callback keeps the keys written so
\* far, and the state run_research returns holds the keys written during
\* the run.
C37_DetailsAccumulate ==
    /\ [][runs' = runs => Keys(ns) \subseteq Keys(ns')]_vars
    /\ [](pc = "returned" => Keys(ns) \subseteq Keys(rs))

\* step_progress of s is a fraction between 0 and 1 (in tenths)
UnitProgress(s) == s.step_progress \in 0..10

\* the estimate e is between 0 and 100
Percentage(e) == FLe(Frac(0, 1), e) /\ FLe(e, Frac(100, 1))

\* C38: get_progress_percentage returns a value between 0 and 100 for
\* every state with step_progress in [0,1], research_loop_count >= 0 and
\* any current_step; during a run the step_progress of every state object
\* is in [0,1], and so every estimate the callback reads is between 0 and
\* 100.
C38_EstimateInRange ==
    /\ (ProgressCalled /\ UnitProgress(fn.arg)) => Percentage(fn.result)
    /\ ForAllStateObjects(UnitProgress)
    /\ \A i \in 1..Len(reports) : Percentage(reports[i].pct)

\* the largest estimate of a web_research state: both the loop factor and
\* step_progress are 1
C38_Witness ==
    /\ ProgressCalled
    /\ fn.arg.current_step = "web_research"
    /\ fn.arg.step_progress = 10
    /\ fn.arg.research_loop_count = 3
    /\ fn.arg.total_steps = 2
    /\ FEq(fn.result, Frac(90, 1))

\* run_research has returned or raised
RunEnded == pc \in {"returned", "raised"}

\* C39: a run that has begun ends: run_research returns a state marked
\* completed or raises with its state marked error, and a run executes at
\* most 1 + 3 * (max_web_research_loops + 1) + 1 executors.
C39_RunTerminates ==
    /\ [](Len(entered) <= 1 + 3 * (max_loops + 1) + 1)
    /\ [](pc = "returned" => rs.current_step = "completed")
    /\ [](pc = "raised" => rs.current_step = "error")
    /\ (pc = "enter" /\ entered = <<>>) ~> RunEnded

\* a run that took the largest number of executors has returned
C39_Witness ==
    /\ pc = "returned"
    /\ max_loops = 2
    /\ Len(entered) = 1 + 3 * (max_loops + 1) + 1
    /\ rs.current_step = "completed"

\* C40: when run_research_sync has returned, research_running is False;
\* it has returned None exactly when research_error is set, and that is
\* exactly when run_research raised; it has returned the state of
\* run_research, marked completed, with research_error unset, exactly when
\* run_research returned.
C40_SyncOutcome ==
    /\ [](pc = "sync_done" =>
            /\ ~session_state.research_running
            /\ sync_result = "none" <=> session_state.research_error # None
            /\ sync_result = "rs" <=> session_state.research_error = None
            /\ sync_result = "rs" => rs.current_step = "completed")
    /\ [][(pc # "sync_done" /\ pc' = "sync_done") =>
            /\ sync_result' = "none" <=> pc = "raised"
            /\ sync_result' = "rs" <=> pc = "returned"
            /\ pc = "raised" => session_state'.research_error = exc]_vars

\* the second run of the app has failed after its first run succeeded
C40_Witness ==
    /\ pc = "sync_done"
    /\ runs = 2
    /\ sync_result = "none"
    /\ session_state.research_error = SearchError
    /\ session_state.research_results # 0
    /\ ~session_state.research_running

====
